---- MODULE Spec2Model ----
(***************************************************************************)
(* vergesort (src/vergesort.h): run-detecting hybrid sort.  Iterators are  *)
(* modelled as offsets 0..dist into the sequence a; the element an         *)
(* iterator p points to is a[p + 1].                                       *)
(***************************************************************************)
EXTENDS Integers, Sequences, FiniteSets, Bags

VARIABLES input, cmp, a, pc, unstable_limit, begin_unstable,
          current, next, begin_rng, calls, runs

vars == <<input, cmp, a, pc, unstable_limit, begin_unstable,
          current, next, begin_rng, calls, runs>>

(* ------------------------------ bounds --------------------------------- *)
\* number of monotone segments an input is built from
MaxSegs == 3
\* longest input that takes the run-detection path
MaxLen == 96
\* longest input below the cutoff
MaxSmall == 3
\* size of the pipe-organ input
PipeSize == 1000

(* -------------------------- program constants -------------------------- *)
Cutoff == 80

(* ------------------------------ helpers -------------------------------- *)
first == 0
last == Len(a)
dist == Len(a)

\* the comparators the sort is called with: std::less<int>, and a strict
\* weak order that is not total (2k and 2k+1 are equivalent)
Comparators == {"less", "key"}

compare(x, y) == IF cmp = "less" THEN x < y ELSE (x \div 2) < (y \div 2)

\* elements [lo, hi) of s, as a sequence
Slice(s, lo, hi) == SubSeq(s, lo + 1, hi)

\* s with [lo, hi) replaced by r (Len(r) = hi - lo in every use by the code)
Splice(s, lo, hi, r) == Slice(s, 0, lo) \o r \o Slice(s, hi, Len(s))

\* [lo, hi) of s is non-decreasing under compare
IsSorted(s, lo, hi) == \A i \in (lo + 1)..(hi - 1) : ~compare(s[i + 1], s[i])

\* [lo, hi) of s is non-increasing under compare
IsRevSorted(s, lo, hi) == \A i \in (lo + 1)..(hi - 1) : ~compare(s[i], s[i + 1])

RECURSIVE log2(_)
log2(n) == IF n \div 2 = 0 THEN 0 ELSE 1 + log2(n \div 2)

\* a reversal that copies from the far end without swapping: the second half
\* is read after the first half was overwritten
reverse_overwrite(s, lo, hi) ==
    [i \in 1..Len(s) |->
        IF lo < i /\ i <= hi /\ 2 * i <= lo + hi THEN s[lo + hi + 1 - i] ELSE s[i]]

\* std::reverse on [lo, hi)
reverse(s, lo, hi) ==
    [i \in 1..Len(s) |-> IF lo < i /\ i <= hi THEN s[lo + hi + 1 - i] ELSE s[i]]

\* Stable merge of the sorted sequences l and r, by the divide-and-conquer
\* scheme of the bufferless std::inplace_merge: the middle element of l goes
\* after the elements of r that compare less than it, and the two halves are
\* merged the same way.
RECURSIVE MergeSeq(_, _)
MergeSeq(l, r) ==
    IF l = <<>> THEN r
    ELSE IF r = <<>> THEN l
    ELSE LET h == (Len(l) + 1) \div 2
             cut == Cardinality({j \in 1..Len(r) : compare(r[j], l[h])})
         IN  MergeSeq(SubSeq(l, 1, h - 1), SubSeq(r, 1, cut))
                \o <<l[h]>>
                \o MergeSeq(SubSeq(l, h + 1, Len(l)), SubSeq(r, cut + 1, Len(r)))

\* std::inplace_merge(f, m, l, compare)
inplace_merge(s, f, m, l) ==
    Splice(s, f, l, MergeSeq(Slice(s, f, m), Slice(s, m, l)))

\* the second merge of the first branch given middle1 for middle2
inplace_merge3_wrong_middle(s, f, middle1, middle2, l) ==
    IF middle1 - f < l - middle2
    THEN inplace_merge(inplace_merge(s, f, middle1, middle2), f, middle1, l)
    ELSE inplace_merge(inplace_merge(s, middle1, middle2, l), f, middle1, l)

\* l.41-58
inplace_merge3(s, f, middle1, middle2, l) ==
    IF middle1 - f < l - middle2
    THEN inplace_merge(inplace_merge(s, f, middle1, middle2), f, middle2, l)
    ELSE inplace_merge(inplace_merge(s, middle1, middle2, l), f, middle1, l)

\* the scan stopping at the first element not greater than its predecessor
is_sorted_until_strict(s, f, l) ==
    IF \E i \in (f + 1)..(l - 1) : ~compare(s[i], s[i + 1])
    THEN CHOOSE i \in (f + 1)..(l - 1) :
            /\ ~compare(s[i], s[i + 1])
            /\ \A k \in (f + 1)..(i - 1) : compare(s[k], s[k + 1])
    ELSE l

\* l.61-77
\* offset of the first element smaller than its predecessor, or l
is_sorted_until(s, f, l) ==
    IF \E i \in (f + 1)..(l - 1) : compare(s[i + 1], s[i])
    THEN CHOOSE i \in (f + 1)..(l - 1) :
            /\ compare(s[i + 1], s[i])
            /\ \A k \in (f + 1)..(i - 1) : ~compare(s[k + 1], s[k])
    ELSE l

\* a total order that refines compare; ties broken upwards or downwards
TotalLess(x, y, up) ==
    \/ compare(x, y)
    \/ ~compare(y, x) /\ (IF up THEN x < y ELSE y < x)

\* s sorted by that total order
SortedSeq(s, up) ==
    LET V == {s[j] : j \in 1..Len(s)}
        before == [v \in V |-> Cardinality({j \in 1..Len(s) : TotalLess(s[j], v, up)})]
        copies == [v \in V |-> Cardinality({j \in 1..Len(s) : s[j] = v})]
    IN  [k \in 1..Len(s) |->
            CHOOSE v \in V : before[v] < k /\ k <= before[v] + copies[v]]

\* pdqsort(lo, hi, compare): an unstable sort; the results it may leave
pdqsort(s, lo, hi) ==
    { Splice(s, lo, hi, SortedSeq(Slice(s, lo, hi), up)) : up \in BOOLEAN }

Call(op, f, m1, m2, l) == [op |-> op, f |-> f, m1 |-> m1, m2 |-> m2, l |-> l]

(* ------------------------------ inputs --------------------------------- *)
SegLens == {2, 16, 40, 80}
\* ascending segments (d = 1) from base 0 or 1, descending segments (d = -1)
\* down to 0 and segments of equal elements (d = 0)
Kinds ==
    [len : SegLens, d : {1}, base : {0, 1}]
        \cup [len : SegLens, d : {-1, 0}, base : {0}]

Segment(k) ==
    [i \in 1..k.len |-> IF k.d = 1 THEN k.base + i - 1
                        ELSE IF k.d = -1 THEN k.base + k.len - i
                        ELSE k.base]

RECURSIVE Build(_)
Build(segs) == IF segs = <<>> THEN <<>> ELSE Segment(Head(segs)) \o Build(Tail(segs))

RECURSIVE TotalLen(_)
TotalLen(segs) == IF segs = <<>> THEN 0 ELSE Head(segs).len + TotalLen(Tail(segs))

Shapes == UNION { [1..n -> Kinds] : n \in 0..MaxSegs }

\* inputs that take the run-detection path
LongInputs ==
    { Build(segs) : segs \in { sh \in Shapes : Cutoff <= TotalLen(sh) /\ TotalLen(sh) <= MaxLen } }

\* every short sequence over a few values
SmallInputs == UNION { [1..n -> 0..3] : n \in 0..MaxSmall }

\* benchmark generators
all_equal_int(size) == [i \in 1..size |-> 0]
ascending_int(size) == [i \in 1..size |-> i - 1]
descending_int(size) == [i \in 1..size |-> size - i]
pipe_organ_int(size) ==
    [i \in 1..size |-> IF i - 1 < size \div 2 THEN i - 1 ELSE size - (i - 1)]
\* the pipe organ whose second half descends from size to size/2 + 1
PipeOrganHigh(size) ==
    [i \in 1..size |-> IF i - 1 < size \div 2 THEN i - 1
                       ELSE size \div 2 + size - (i - 1)]

\* the benchmark distributions that need no random source
BenchInputs ==
    { all_equal_int(n) : n \in Cutoff..MaxLen }
        \cup { ascending_int(n) : n \in Cutoff..MaxLen }
        \cup { descending_int(n) : n \in Cutoff..MaxLen }
        \cup { pipe_organ_int(PipeSize), PipeOrganHigh(PipeSize) }

(* ------------------------------- state --------------------------------- *)
InitLocals ==
    /\ a = input
    /\ pc = "entry"
    /\ unstable_limit = 0
    /\ begin_unstable = 0
    /\ current = 0
    /\ next = 0
    /\ begin_rng = 0
    /\ calls = <<>>
    /\ runs = <<>>

Init ==
    /\ cmp \in Comparators
    /\ input \in SmallInputs \cup LongInputs \cup BenchInputs
    /\ InitLocals

(* ------------------------------ actions -------------------------------- *)
Log(c) == calls' = Append(calls, c)

\* the early return without the delegation to pdqsort
EntrySmall_no_sort ==
    /\ pc = "entry"
    /\ dist < Cutoff
    /\ pc' = "done"
    /\ UNCHANGED <<input, cmp, a, unstable_limit, begin_unstable, current, next,
                   begin_rng, calls, runs>>

\* l.84-91: below the cutoff the whole range goes to pdqsort
EntrySmall ==
    /\ pc = "entry"
    /\ dist < Cutoff
    /\ a' \in pdqsort(a, first, last)
    /\ Log(Call("pdqsort", first, first, first, last))
    /\ pc' = "done"
    /\ UNCHANGED <<input, cmp, unstable_limit, begin_unstable, current, next,
                   begin_rng, runs>>

\* the threshold left at dist, not divided by log2(dist)
EntryScan_no_divide ==
    /\ pc = "entry"
    /\ ~(dist < Cutoff)
    /\ unstable_limit' = dist
    /\ begin_unstable' = last
    /\ current' = is_sorted_until(a, first, last) - 1
    /\ next' = is_sorted_until(a, first, last)
    /\ pc' = "loop"
    /\ UNCHANGED <<input, cmp, a, begin_rng, calls, runs>>

\* l.94-102: threshold, marker and the cursor pair
EntryScan ==
    /\ pc = "entry"
    /\ ~(dist < Cutoff)
    /\ unstable_limit' = dist \div log2(dist)
    /\ begin_unstable' = last
    /\ current' = is_sorted_until(a, first, last) - 1
    /\ next' = is_sorted_until(a, first, last)
    /\ pc' = "loop"
    /\ UNCHANGED <<input, cmp, a, begin_rng, calls, runs>>

\* l.104-106
LoopTop ==
    /\ pc = "loop"
    /\ begin_rng' = current
    /\ pc' = "desc_scan"
    /\ UNCHANGED <<input, cmp, a, unstable_limit, begin_unstable, current, next,
                   calls, runs>>

\* l.109-114, one iteration of the decreasing-range loop
DescScanStep ==
    /\ pc = "desc_scan"
    /\ next # last
    /\ ~compare(a[current + 1], a[next + 1])
    /\ current' = current + 1
    /\ next' = next + 1
    /\ UNCHANGED <<input, cmp, a, pc, unstable_limit, begin_unstable, begin_rng,
                   calls, runs>>

\* the decreasing-range loop left as soon as two elements are not strictly
\* decreasing
DescScanEnd_on_equal ==
    /\ pc = "desc_scan"
    /\ (IF next # last THEN ~compare(a[next + 1], a[current + 1]) ELSE TRUE)
    /\ runs' = Append(runs, [dir |-> "desc", lo |-> begin_rng, hi |-> next])
    /\ pc' = "desc_classify"
    /\ UNCHANGED <<input, cmp, a, unstable_limit, begin_unstable, current, next,
                   begin_rng, calls>>

\* l.109-111, the decreasing-range loop ends
DescScanEnd ==
    /\ pc = "desc_scan"
    /\ (IF next # last THEN compare(a[current + 1], a[next + 1]) ELSE TRUE)
    /\ runs' = Append(runs, [dir |-> "desc", lo |-> begin_rng, hi |-> next])
    /\ pc' = "desc_classify"
    /\ UNCHANGED <<input, cmp, a, unstable_limit, begin_unstable, current, next,
                   begin_rng, calls>>

\* l.117-121
DescSortBatch ==
    /\ pc = "desc_classify"
    /\ next - begin_rng > unstable_limit
    /\ begin_unstable # last
    /\ a' \in pdqsort(a, begin_unstable, begin_rng)
    /\ Log(Call("pdqsort", begin_unstable, begin_unstable, begin_unstable, begin_rng))
    /\ pc' = "desc_reverse3"
    /\ UNCHANGED <<input, cmp, unstable_limit, begin_unstable, current, next,
                   begin_rng, runs>>

\* l.122
DescReverse3 ==
    /\ pc = "desc_reverse3"
    /\ a' = reverse(a, begin_rng, next)
    /\ Log(Call("reverse", begin_rng, begin_rng, begin_rng, next))
    /\ pc' = "desc_merge3"
    /\ UNCHANGED <<input, cmp, unstable_limit, begin_unstable, current, next,
                   begin_rng, runs>>

\* l.123-124
DescMerge3 ==
    /\ pc = "desc_merge3"
    /\ a' = inplace_merge3(a, first, begin_unstable, begin_rng, next)
    /\ Log(Call("inplace_merge3", first, begin_unstable, begin_rng, next))
    /\ begin_unstable' = last
    /\ pc' = "desc_exit"
    /\ UNCHANGED <<input, cmp, unstable_limit, current, next, begin_rng, runs>>

\* the long descending run merged without being reversed
DescReverse2_skipped ==
    /\ pc = "desc_classify"
    /\ next - begin_rng > unstable_limit
    /\ ~(begin_unstable # last)
    /\ pc' = "desc_merge2"
    /\ UNCHANGED <<input, cmp, a, unstable_limit, begin_unstable, current, next,
                   begin_rng, calls, runs>>

\* l.117-119, 126-128
DescReverse2 ==
    /\ pc = "desc_classify"
    /\ next - begin_rng > unstable_limit
    /\ ~(begin_unstable # last)
    /\ a' = reverse(a, begin_rng, next)
    /\ Log(Call("reverse", begin_rng, begin_rng, begin_rng, next))
    /\ pc' = "desc_merge2"
    /\ UNCHANGED <<input, cmp, unstable_limit, begin_unstable, current, next,
                   begin_rng, runs>>

\* l.129
DescMerge2 ==
    /\ pc = "desc_merge2"
    /\ a' = inplace_merge(a, first, begin_rng, next)
    /\ Log(Call("inplace_merge", first, begin_rng, begin_rng, next))
    /\ pc' = "desc_exit"
    /\ UNCHANGED <<input, cmp, unstable_limit, begin_unstable, current, next,
                   begin_rng, runs>>

\* the marker moved by every short run, pending batch or not
DescShort_overwrite ==
    /\ pc = "desc_classify"
    /\ ~(next - begin_rng > unstable_limit)
    /\ begin_unstable' = begin_rng
    /\ pc' = "desc_exit"
    /\ UNCHANGED <<input, cmp, a, unstable_limit, current, next, begin_rng,
                   calls, runs>>

\* l.117, 132-135
DescShort ==
    /\ pc = "desc_classify"
    /\ ~(next - begin_rng > unstable_limit)
    /\ begin_unstable' = IF begin_unstable = last THEN begin_rng ELSE begin_unstable
    /\ pc' = "desc_exit"
    /\ UNCHANGED <<input, cmp, a, unstable_limit, current, next, begin_rng,
                   calls, runs>>

\* l.137, break
DescExitBreak ==
    /\ pc = "desc_exit"
    /\ next = last
    /\ pc' = "flush"
    /\ UNCHANGED <<input, cmp, a, unstable_limit, begin_unstable, current, next,
                   begin_rng, calls, runs>>

\* l.137-142
DescExitAdvance ==
    /\ pc = "desc_exit"
    /\ next # last
    /\ current' = current + 1
    /\ next' = next + 1
    /\ begin_rng' = current + 1
    /\ pc' = "asc_scan"
    /\ UNCHANGED <<input, cmp, a, unstable_limit, begin_unstable, calls, runs>>

\* l.145-150, one iteration of the increasing-range loop
AscScanStep ==
    /\ pc = "asc_scan"
    /\ next # last
    /\ ~compare(a[next + 1], a[current + 1])
    /\ current' = current + 1
    /\ next' = next + 1
    /\ UNCHANGED <<input, cmp, a, pc, unstable_limit, begin_unstable, begin_rng,
                   calls, runs>>

\* l.145-147, the increasing-range loop ends
AscScanEnd ==
    /\ pc = "asc_scan"
    /\ (IF next # last THEN compare(a[next + 1], a[current + 1]) ELSE TRUE)
    /\ runs' = Append(runs, [dir |-> "asc", lo |-> begin_rng, hi |-> next])
    /\ pc' = "asc_classify"
    /\ UNCHANGED <<input, cmp, a, unstable_limit, begin_unstable, current, next,
                   begin_rng, calls>>

\* the pending batch merged without being sub-sorted
AscSortBatch_skipped ==
    /\ pc = "asc_classify"
    /\ next - begin_rng > unstable_limit
    /\ begin_unstable # last
    /\ pc' = "asc_merge3"
    /\ UNCHANGED <<input, cmp, a, unstable_limit, begin_unstable, current, next,
                   begin_rng, calls, runs>>

\* l.153-157
AscSortBatch ==
    /\ pc = "asc_classify"
    /\ next - begin_rng > unstable_limit
    /\ begin_unstable # last
    /\ a' \in pdqsort(a, begin_unstable, begin_rng)
    /\ Log(Call("pdqsort", begin_unstable, begin_unstable, begin_unstable, begin_rng))
    /\ pc' = "asc_merge3"
    /\ UNCHANGED <<input, cmp, unstable_limit, begin_unstable, current, next,
                   begin_rng, runs>>

\* l.158-159
AscMerge3 ==
    /\ pc = "asc_merge3"
    /\ a' = inplace_merge3(a, first, begin_unstable, begin_rng, next)
    /\ Log(Call("inplace_merge3", first, begin_unstable, begin_rng, next))
    /\ begin_unstable' = last
    /\ pc' = "asc_exit"
    /\ UNCHANGED <<input, cmp, unstable_limit, current, next, begin_rng, runs>>

\* l.153-155, 161-163
AscMerge2 ==
    /\ pc = "asc_classify"
    /\ next - begin_rng > unstable_limit
    /\ ~(begin_unstable # last)
    /\ a' = inplace_merge(a, first, begin_rng, next)
    /\ Log(Call("inplace_merge", first, begin_rng, begin_rng, next))
    /\ pc' = "asc_exit"
    /\ UNCHANGED <<input, cmp, unstable_limit, begin_unstable, current, next,
                   begin_rng, runs>>

\* l.153, 166-169
AscShort ==
    /\ pc = "asc_classify"
    /\ ~(next - begin_rng > unstable_limit)
    /\ begin_unstable' = IF begin_unstable = last THEN begin_rng ELSE begin_unstable
    /\ pc' = "asc_exit"
    /\ UNCHANGED <<input, cmp, a, unstable_limit, current, next, begin_rng,
                   calls, runs>>

\* l.171, break
AscExitBreak ==
    /\ pc = "asc_exit"
    /\ next = last
    /\ pc' = "flush"
    /\ UNCHANGED <<input, cmp, a, unstable_limit, begin_unstable, current, next,
                   begin_rng, calls, runs>>

\* the loop restarted without moving the cursor pair
AscExitAdvance_no_advance ==
    /\ pc = "asc_exit"
    /\ next # last
    /\ pc' = "loop"
    /\ UNCHANGED <<input, cmp, a, unstable_limit, begin_unstable, current, next,
                   begin_rng, calls, runs>>

\* l.171-175
AscExitAdvance ==
    /\ pc = "asc_exit"
    /\ next # last
    /\ current' = current + 1
    /\ next' = next + 1
    /\ pc' = "loop"
    /\ UNCHANGED <<input, cmp, a, unstable_limit, begin_unstable, begin_rng,
                   calls, runs>>

\* l.177, nothing pending
FlushNone ==
    /\ pc = "flush"
    /\ ~(begin_unstable # last)
    /\ pc' = "done"
    /\ UNCHANGED <<input, cmp, a, unstable_limit, begin_unstable, current, next,
                   begin_rng, calls, runs>>

\* l.177-179
FlushSort ==
    /\ pc = "flush"
    /\ begin_unstable # last
    /\ a' \in pdqsort(a, begin_unstable, last)
    /\ Log(Call("pdqsort", begin_unstable, begin_unstable, begin_unstable, last))
    /\ pc' = "flush_merge"
    /\ UNCHANGED <<input, cmp, unstable_limit, begin_unstable, current, next,
                   begin_rng, runs>>

\* l.180
FlushMerge ==
    /\ pc = "flush_merge"
    /\ a' = inplace_merge(a, first, begin_unstable, last)
    /\ Log(Call("inplace_merge", first, begin_unstable, begin_unstable, last))
    /\ pc' = "done"
    /\ UNCHANGED <<input, cmp, unstable_limit, begin_unstable, current, next,
                   begin_rng, runs>>

Next ==
    \/ EntrySmall \/ EntryScan \/ LoopTop
    \/ DescScanStep \/ DescScanEnd
    \/ DescSortBatch \/ DescReverse3 \/ DescMerge3
    \/ DescReverse2 \/ DescMerge2 \/ DescShort
    \/ DescExitBreak \/ DescExitAdvance
    \/ AscScanStep \/ AscScanEnd
    \/ AscSortBatch \/ AscMerge3 \/ AscMerge2 \/ AscShort
    \/ AscExitBreak \/ AscExitAdvance
    \/ FlushNone \/ FlushSort \/ FlushMerge

Spec == Init /\ [][Next]_vars

(* --------------------------- claim vocabulary -------------------------- *)
Done == pc = "done"

\* the call took the run-detection path
Scanned == Len(input) >= Cutoff

HasOp(op) == \E k \in 1..Len(calls) : calls[k].op = op

CountOp(op) == Cardinality({k \in 1..Len(calls) : calls[k].op = op})

\* number of copies of each value held by s
Multiset(s) ==
    [v \in {s[i] : i \in 1..Len(s)} |-> Cardinality({i \in 1..Len(s) : s[i] = v})]

\* strictly decreasing under compare
StrictlyDecreasing(s) == \A i \in 1..(Len(s) - 1) : compare(s[i + 1], s[i])

IsLong(r) == r.hi - r.lo > unstable_limit

(* -------------------------------- C1 ----------------------------------- *)
\* C1: when vergesort returns, the sequence is ordered under the comparator:
\* no element compares less than its predecessor, for inputs below the
\* cutoff and for inputs on the run-detection path alike.
C1_Sorted == Done => IsSorted(a, 0, Len(a))

\* a call that sub-sorted a batch and did a 3-way merge has returned
C1_Witness ==
    /\ Done /\ Scanned /\ a # input
    /\ HasOp("pdqsort") /\ HasOp("inplace_merge3") /\ HasOp("reverse")

(* -------------------------------- C2 ----------------------------------- *)
\* C2: every step that changes the sequence (sub-sort, reversal, 2-way and
\* 3-way merge) leaves the multiset of its elements as it was, so that the
\* sequence vergesort returns holds each value as often as the input did.
C2_Permutation ==
    /\ [][(a' # a => Multiset(a') = Multiset(a)) /\ input' = input]_vars
    /\ [](Done => Multiset(a) = Multiset(input))

\* a returned call whose steps of all four kinds moved elements
C2_Witness ==
    /\ Done /\ Scanned /\ a # input /\ cmp = "key"
    /\ HasOp("pdqsort") /\ HasOp("inplace_merge3")
    /\ HasOp("reverse") /\ HasOp("inplace_merge")

(* -------------------------------- C3 ----------------------------------- *)
\* C3 as stated, on the run-detection path: an input that is already
\* non-decreasing comes back unchanged, no run is classified and neither a
\* sub-sort nor a merge is called.
C3_NoWorkOnSorted ==
    (Done /\ Scanned /\ IsSorted(input, 0, Len(input)))
        => /\ a = input
           /\ runs = <<>>
           /\ calls = <<>>

\* C3 amended: a non-decreasing input of length >= 80 comes back unchanged;
\* the initial scan finds no inversion, the loop classifies the one-element
\* run [last-1, last) as short, and the final flush sub-sorts that element
\* and merges [first, last-1) with [last-1, last) once; nothing is reversed
\* and no 3-way merge is made.
C3_SortedUnchanged ==
    (Done /\ Scanned /\ IsSorted(input, 0, Len(input)))
        => /\ a = input
           /\ runs = <<[dir |-> "desc", lo |-> last - 1, hi |-> last]>>
           /\ calls = <<Call("pdqsort", last - 1, last - 1, last - 1, last),
                        Call("inplace_merge", first, last - 1, last - 1, last)>>

\* an all-equivalent input whose elements are not all the same has returned
C3_Witness ==
    /\ Done /\ Scanned /\ IsSorted(input, 0, Len(input))
    /\ \E i \in 1..Len(input) : input[i] # input[1]
    /\ \A i \in 1..Len(input) : ~compare(input[i], input[1]) /\ ~compare(input[1], input[i])

(* -------------------------------- C4 ----------------------------------- *)
\* C4 as stated: an input of length 0 or 1 comes back unchanged with no call
\* to the sub-sort and no call to a merge.
C4_NoCallsOnTiny ==
    (Done /\ Len(input) <= 1) => a = input /\ calls = <<>>

\* C4 amended: an input of length 0 or 1 comes back unchanged; the only call
\* made is the one delegation of the whole range to the sub-sort; no run is
\* scanned and no merge is called.
C4_TinyDelegated ==
    (Done /\ Len(input) <= 1)
        => /\ a = input
           /\ runs = <<>>
           /\ calls = <<Call("pdqsort", first, first, first, last)>>

C4_Witness == Done /\ Len(input) = 1

(* -------------------------------- C5 ----------------------------------- *)
\* C5: a strictly decreasing input of length >= 80 is scanned as exactly one
\* run, descending, covering the whole range and longer than the unstable
\* limit; the range is reversed exactly once, the sub-sort is never called,
\* and the result is sorted.
C5_Descending ==
    (Done /\ Scanned /\ StrictlyDecreasing(input))
        => /\ runs = <<[dir |-> "desc", lo |-> first, hi |-> last]>>
           /\ last - first > unstable_limit
           /\ CountOp("reverse") = 1
           /\ calls[1] = Call("reverse", first, first, first, last)
           /\ ~HasOp("pdqsort")
           /\ IsSorted(a, 0, Len(a))
           /\ a = reverse(input, 0, Len(input))

C5_Witness == Done /\ Scanned /\ StrictlyDecreasing(input) /\ Len(input) > Cutoff

(* -------------------------------- C6 ----------------------------------- *)
\* the pipe organ [0..499, 1000, 999, ..., 501] sorted by std::less
PipeCall == cmp = "less" /\ input = PipeOrganHigh(PipeSize)

\* C6 as stated: the pipe organ of length 1000 comes back as [0..999], after
\* a long ascending run and a long descending run were both merged, with
\* exactly one 2-way merge.
C6_PipeOrganBothPaths ==
    (Done /\ PipeCall)
        => /\ a = ascending_int(PipeSize)
           /\ \E k \in 1..Len(runs) : runs[k].dir = "asc" /\ IsLong(runs[k])
           /\ \E k \in 1..Len(runs) : runs[k].dir = "desc" /\ IsLong(runs[k])
           /\ CountOp("inplace_merge") = 1

\* C6 amended: the pipe organ [0..499, 1000, 999, ..., 501] comes back as the
\* sorted permutation of itself, [0..499, 501..1000]; the ascending half is
\* consumed by the initial is_sorted_until scan, the only run classified is
\* the long descending run [500, 1000), which is reversed once and merged
\* with the prefix by exactly one 2-way merge; no sub-sort, no 3-way merge.
C6_PipeOrgan ==
    (Done /\ PipeCall)
        => /\ a = [i \in 1..PipeSize |-> IF i <= PipeSize \div 2 THEN i - 1 ELSE i]
           /\ IsSorted(a, 0, Len(a))
           /\ runs = <<[dir |-> "desc", lo |-> PipeSize \div 2, hi |-> last]>>
           /\ IsLong(runs[1])
           /\ calls = <<Call("reverse", PipeSize \div 2, PipeSize \div 2,
                              PipeSize \div 2, last),
                        Call("inplace_merge", first, PipeSize \div 2,
                              PipeSize \div 2, last)>>

C6_Witness == Done /\ PipeCall /\ a # input

(* -------------------------------- C7 ----------------------------------- *)
AtClassify == pc \in {"desc_classify", "asc_classify"}

\* [lo, hi) lies in the range and is monotonic in the input, either way
Monotonic(lo, hi) ==
    /\ 0 <= lo /\ hi <= Len(input)
    /\ (IsSorted(input, lo, hi) \/ IsRevSorted(input, lo, hi))

\* the run just scanned is monotonic in its phase's direction, in the input
RunInDirection ==
    /\ \A i \in (begin_rng + 1)..next : a[i] = input[i]
    /\ pc = "desc_classify" => IsRevSorted(input, begin_rng, next)
    /\ pc = "asc_classify" => IsSorted(input, begin_rng, next)

\* C7 as stated: every run the scanner reports is monotonic in its phase's
\* direction and is not properly contained in a longer contiguous monotonic
\* sub-range.
C7_RunsMaximal ==
    AtClassify
        => /\ RunInDirection
           /\ ~Monotonic(begin_rng - 1, next)
           /\ ~Monotonic(begin_rng, next + 1)

\* C7 amended: every run [begin_rng, next) the scanner reports is non-empty,
\* starts where the run before it ended, is monotonic in its phase's
\* direction (non-increasing in the descending phase, non-decreasing in the
\* ascending phase) and cannot be extended to the right in that direction:
\* next is the end of the range or the element at next breaks the order.  It
\* may be extensible to the left, or be part of a longer range monotonic in
\* the other direction.
C7_RunsRightMaximal ==
    AtClassify
        => /\ RunInDirection
           /\ begin_rng < next
           /\ Len(runs) >= 2 => runs[Len(runs) - 1].hi = begin_rng
           /\ (pc = "desc_classify" /\ next # last) => compare(input[next], input[next + 1])
           /\ (pc = "asc_classify" /\ next # last) => compare(input[next + 1], input[next])

\* an ascending run of several elements that stops before the end of the
\* range and that the element before it would extend
C7_Witness ==
    /\ pc = "asc_classify" /\ next # last /\ next - begin_rng >= 2
    /\ IsSorted(input, begin_rng - 1, next)

(* -------------------------------- C8 ----------------------------------- *)
Pending == begin_unstable # last

RunLong == next - begin_rng > unstable_limit

SortBatchCall == Call("pdqsort", begin_unstable, begin_unstable, begin_unstable, begin_rng)

\* what one step does to the marker, the sequence and the calls made
C8_Step ==
    /\ (AtClassify /\ ~RunLong)
          => /\ begin_unstable' = (IF Pending THEN begin_unstable ELSE begin_rng)
             /\ a' = a /\ calls' = calls
    /\ (AtClassify /\ RunLong /\ Pending)
          => /\ calls' = Append(calls, SortBatchCall)
             /\ \A i \in 1..Len(a) : (i <= begin_unstable \/ i > begin_rng) => a'[i] = a[i]
             /\ begin_unstable' = begin_unstable
             /\ pc' = (IF pc = "desc_classify" THEN "desc_reverse3" ELSE "asc_merge3")
    /\ pc = "desc_reverse3"
          => /\ calls' = Append(calls, Call("reverse", begin_rng, begin_rng, begin_rng, next))
             /\ begin_unstable' = begin_unstable
             /\ pc' = "desc_merge3"
    /\ pc \in {"desc_merge3", "asc_merge3"}
          => /\ calls[Len(calls) - (IF pc = "desc_merge3" THEN 1 ELSE 0)] = SortBatchCall
             /\ calls' = Append(calls, Call("inplace_merge3", first, begin_unstable,
                                             begin_rng, next))
             /\ begin_unstable' = last
             /\ pc' \in {"desc_exit", "asc_exit"}
    /\ (AtClassify /\ RunLong /\ ~Pending)
          => /\ begin_unstable' = last
             /\ pc = "asc_classify"
                  => /\ calls' = Append(calls, Call("inplace_merge", first, begin_rng,
                                                     begin_rng, next))
                     /\ pc' = "asc_exit"
             /\ pc = "desc_classify"
                  => /\ calls' = Append(calls, Call("reverse", begin_rng, begin_rng,
                                                     begin_rng, next))
                     /\ pc' = "desc_merge2"
    /\ pc = "desc_merge2"
          => /\ calls' = Append(calls, Call("inplace_merge", first, begin_rng,
                                             begin_rng, next))
             /\ begin_unstable' = last
             /\ pc' = "desc_exit"
    /\ pc \in {"loop", "desc_scan", "asc_scan", "desc_exit", "asc_exit", "flush",
                "flush_merge"}
          => begin_unstable' = begin_unstable

\* the pending batch is made of whole short runs, and no sub-sort covers an
\* element of a long run
C8_Batch ==
    /\ (pc \in {"desc_exit", "asc_exit"} /\ Pending)
          => /\ \E k \in 1..Len(runs) : runs[k].lo = begin_unstable
             /\ \A k \in 1..Len(runs) : runs[k].lo >= begin_unstable => ~IsLong(runs[k])
    /\ Scanned
          => \A k \in 1..Len(calls) : \A j \in 1..Len(runs) :
                (calls[k].op = "pdqsort" /\ IsLong(runs[j]))
                    => (calls[k].l <= runs[j].lo \/ runs[j].hi <= calls[k].f)

\* C8: one marker holds the pending batch.  A short run sets it to the run's
\* start iff nothing is pending and otherwise changes neither marker nor
\* sequence; a long run with a batch pending causes one sub-sort of exactly
\* [begin_unstable, begin_rng), then the 3-way merge of the prefix, the batch
\* and the run, and then clears the marker; a long run with nothing pending
\* causes (after the reversal of a descending run) a 2-way merge only; no
\* sub-sort is applied to an element of a long run.
C8_BatchLifecycle == [][C8_Step]_vars /\ []C8_Batch

\* two batches were flushed by long runs, one in each phase, and a third
\* batch was begun after them
C8_Witness ==
    /\ pc \in {"desc_exit", "asc_exit"} /\ Pending
    /\ CountOp("inplace_merge3") >= 1 /\ CountOp("pdqsort") >= 1
    /\ \E k \in 1..Len(runs) : IsLong(runs[k]) /\ runs[k].lo > 0

(* -------------------------------- C9 ----------------------------------- *)
C9_Progress ==
    /\ AtClassify => (begin_rng < next /\ next <= last)
    /\ (AtClassify /\ Len(runs) >= 2) => runs[Len(runs) - 1].hi = begin_rng
    /\ (Done /\ Scanned)
          => /\ next = last
             /\ Pending
                  => /\ Len(calls) >= 2
                     /\ calls[Len(calls) - 1] =
                            Call("pdqsort", begin_unstable, begin_unstable,
                                 begin_unstable, last)
                     /\ calls[Len(calls)] =
                            Call("inplace_merge", first, begin_unstable,
                                 begin_unstable, last)
                     /\ IsSorted(a, 0, Len(a))

\* position of a control point in the flow between two moves of next
PcRank ==
    CASE pc = "loop" -> 9
      [] pc \in {"desc_scan", "asc_scan"} -> 8
      [] pc \in {"desc_classify", "asc_classify"} -> 7
      [] pc = "desc_reverse3" -> 6
      [] pc \in {"desc_merge3", "asc_merge3", "desc_merge2"} -> 5
      [] pc \in {"desc_exit", "asc_exit"} -> 4
      [] pc = "flush" -> 3
      [] pc = "flush_merge" -> 2
      [] OTHER -> 0

\* steps left, at most: ten per element still ahead of next
Rank ==
    IF pc = "entry" THEN 10 * Len(a) + 10
    ELSE IF pc = "done" THEN 0
    ELSE 10 * (last - next) + PcRank

\* C9: every call returns: each step lowers a measure that is a natural
\* number, so no call takes more than 10 * dist + 10 steps; the cursor next
\* never moves backwards; every run scanned holds at least one element not
\* in an earlier run; and the call returns only with next = last and only
\* after a batch still pending there, [begin_unstable, last), was sub-sorted
\* and merged with the prefix [first, begin_unstable) as the last step.
C9_Terminates ==
    [][Rank' < Rank /\ next' >= next]_vars /\ [](Rank \in Nat /\ C9_Progress)

\* a call that alternated through both phases has returned after the
\* final flush
C9_Witness ==
    /\ Done /\ Scanned /\ Pending /\ Len(runs) >= 4
    /\ calls[Len(calls)].op = "inplace_merge"

(* -------------------------------- C10 ---------------------------------- *)
\* end of the prefix known to be sorted
PrefixEnd == IF Pending THEN begin_unstable ELSE begin_rng

\* the two std::inplace_merge calls made by inplace_merge3 get sorted ranges
Merge3RangesSorted(s, f, middle1, middle2, l) ==
    /\ IsSorted(s, f, middle1) /\ IsSorted(s, middle1, middle2) /\ IsSorted(s, middle2, l)
    /\ IF middle1 - f < l - middle2
       THEN IsSorted(inplace_merge(s, f, middle1, middle2), f, middle2)
       ELSE IsSorted(inplace_merge(s, middle1, middle2, l), middle1, l)

\* C10: on the run-detection path, whenever a run is classified and at the
\* final flush, [first, P) is sorted, P being begin_unstable if a batch is
\* pending and begin_rng if not, and the elements from next on are those of
\* the input; and every 2-way merge and every inplace_merge3 is called on
\* adjacent sub-ranges that are each sorted.
C10_SortedPrefix ==
    /\ (AtClassify \/ pc = "flush")
          => /\ IsSorted(a, first, PrefixEnd)
             /\ \A i \in (next + 1)..Len(a) : a[i] = input[i]
    /\ (pc = "desc_merge2" \/ (pc = "asc_classify" /\ RunLong /\ ~Pending))
          => IsSorted(a, first, begin_rng) /\ IsSorted(a, begin_rng, next)
    /\ pc \in {"desc_merge3", "asc_merge3"}
          => Merge3RangesSorted(a, first, begin_unstable, begin_rng, next)
    /\ pc = "flush_merge"
          => IsSorted(a, first, begin_unstable) /\ IsSorted(a, begin_unstable, last)

\* a 3-way merge is about to be made on three non-empty ranges that are not
\* yet ordered as a whole
C10_Witness ==
    /\ pc \in {"desc_merge3", "asc_merge3"}
    /\ first < begin_unstable /\ begin_unstable < begin_rng
    /\ ~IsSorted(a, first, next)

====
